---- MODULE Spec2Model ----
(***************************************************************************)
(* Model of search.py: the three fixed-depth game-tree searches minimax,   *)
(* alphabeta and stochastic (with stochasticHelper), over an abstract      *)
(* two-player game supplied by the external chess.lib collaborators        *)
(* (move generation, makeMove, evaluate, encode).                          *)
(*                                                                         *)
(* The game is a finite graph of boards.  A board has up to two legal      *)
(* moves; nMoves and val, chosen in Init, say how many it has and what     *)
(* evaluate returns for it.  A call of a search function is one action: it *)
(* computes the whole (recursive) call and records what the call returned  *)
(* or the exception it raised.                                             *)
(*                                                                         *)
(* A moveTree (a nested dict from move keys to dicts) is represented by the *)
(* set of its key paths: {a: {b: {}}, c: {}} is {<<a>>, <<a, b>>, <<c>>}.  *)
(***************************************************************************)
EXTENDS Integers, Sequences, FiniteSets

\* ------------------------------------------------------------------ bounds

\* Number of boards of the game graph.
NumPos == 4

\* evaluate returns a value in 0..MaxVal.
MaxVal == 1

\* Largest depth a call is made with.
MaxDepth == 3

\* Largest breadth stochastic is called with.
MaxBreadth == 2

\* Period of the stateful choosers.
Period == 3

\* Nesting of Python frames after which a call raises RecursionError; it
\* exceeds what any call with 0 <= depth <= MaxDepth needs.
RecursionLimit == MaxDepth + 3

\* math.inf: larger than every value evaluate returns.
Inf == 99

VARIABLES
    val,      \* val[b]: what evaluate(b) returns
    nMoves,   \* nMoves[b]: how many legal moves board b has
    side,     \* the root call's side: TRUE if Min plays next
    board,    \* the root call's board
    flags,    \* the root call's flags
    pc,       \* "idle" before the call, "done" after it
    call,     \* the call made: function and arguments
    result    \* what the call returned or raised

vars == <<val, nMoves, side, board, flags, pc, call, result>>

Pos == 0 .. (NumPos - 1)

Values == 0 .. MaxVal

\* ----------------------------------------------------- python's built-ins

\* min(a, b) and max(a, b)
Min2(a, b) == IF a <= b THEN a ELSE b

Max2(a, b) == IF a >= b THEN a ELSE b

\* d[key] = sub on a dict: the entry for key is replaced as a whole.
SetItem(d, key, sub) ==
    {p \in d : p[1] # key} \cup {<<key>>} \cup {<<key>> \o q : q \in sub}

\* key in d
HasKey(d, key) == <<key>> \in d

\* d[key]
GetItem(d, key) ==
    {SubSeq(p, 2, Len(p)) : p \in {q \in d : q[1] = key /\ Len(q) > 1}}

\* The keys of dict d.
Keys(d) == {p[1] : p \in d}

\* d.update(other): every key of other gets other's entry, as a whole; the
\* entries of d under a key of other are dropped.
DictUpdate(d, other) ==
    {p \in d : p[1] \notin Keys(other)} \cup other

\* ------------------------------------------------- external collaborators

\* evaluate(board) of chess.lib.heuristics.
evaluate(b) == val[b]

\* generateMoves: the legal moves of the side on the board, in enumeration
\* order, each [fro, to, promote].
generateMoves(s, b, f) ==
    SubSeq(<<[fro |-> b, to |-> (2 * b + 2) % NumPos, promote |-> 0],
             [fro |-> b, to |-> (2 * b + 1) % NumPos, promote |-> 0]>>,
           1, nMoves[b])

\* makeMove of chess.lib.core: the other side is to move on the new board.
makeMove(s, b, fro, to, f, promote) ==
    [side |-> ~s, board |-> to, flags |-> f]

\* encode of chess.lib.utils: the key of a move, one per distinct move.
encode(fro, to, promote) == 10 * fro + to

\* ------------------------------------------------------ results of a call

\* A normal return of (value, moveList, moveTree).  g is the bookkeeping of
\* the call: applied counts the makeMove calls made, minDepth is the least
\* depth argument any invocation received, windowOk says every invocation
\* was entered with alpha < beta, chosen counts the calls of the chooser,
\* samples holds the key paths the playouts of stochastic followed.
Return(v, ml, mt, g) ==
    [fault |-> "none", value |-> v, moveList |-> ml, moveTree |-> mt, g |-> g]

\* An exception propagating out of the call: nothing is returned.
Raise(e, g) ==
    [fault |-> e, value |-> 0, moveList |-> <<>>, moveTree |-> {}, g |-> g]

\* The bookkeeping of an invocation entered with the given depth.
Enter(depth) ==
    [applied |-> 0, minDepth |-> depth, windowOk |-> TRUE, chosen |-> 0,
     samples |-> {}]

\* The bookkeeping after makeMove and the invocation that returned r.
After(g, r) ==
    [applied |-> g.applied + 1 + r.g.applied,
     minDepth |-> Min2(g.minDepth, r.g.minDepth),
     windowOk |-> g.windowOk /\ r.g.windowOk,
     chosen |-> r.g.chosen,
     samples |-> g.samples]

\* ---------------------------------------------------------------- minimax

\* A minimax in which a later move of equal value replaces the best one.
minimaxImprovesOrTies(s, moveValue, heuristic) ==
    IF s = FALSE THEN moveValue >= heuristic ELSE moveValue <= heuristic

\* The test that makes a move the new best one.
minimaxImproves(s, moveValue, heuristic) ==
    IF s = FALSE THEN moveValue > heuristic ELSE moveValue < heuristic

\* A minimax whose moveTree keeps the entry of the last move only.
minimaxRecordOnlyLast(moveTree, encodedMove, moveTree_d1) ==
    SetItem({}, encodedMove, moveTree_d1)

\* moveTree[encodedMove] = moveTree_d1
minimaxRecord(moveTree, encodedMove, moveTree_d1) ==
    SetItem(moveTree, encodedMove, moveTree_d1)

RECURSIVE minimax(_, _, _, _, _)
RECURSIVE minimaxLoop(_, _, _, _, _, _, _, _)

\* The for loop of minimax from its i-th move on; acc holds the locals.
minimaxLoop(s, b, f, depth, frame, moves, i, acc) ==
    IF i > Len(moves)
    THEN Return(acc.heuristic, <<acc.bestMove>> \o acc.bestList,
                acc.moveTree, acc.g)
    ELSE
        LET move == moves[i]
            encodedMove == encode(move.fro, move.to, move.promote)
            new == makeMove(s, b, move.fro, move.to, f, move.promote)
            r == minimax(new.side, new.board, new.flags, depth - 1, frame + 1)
            g == After(acc.g, r)
        IN  IF r.fault # "none"
            THEN Raise(r.fault, g)
            ELSE
                LET better == minimaxImproves(s, r.value, acc.heuristic)
                IN  minimaxLoop(s, b, f, depth, frame, moves, i + 1,
                        [heuristic |-> IF better THEN r.value ELSE acc.heuristic,
                         bestMove |-> IF better THEN move ELSE acc.bestMove,
                         bestList |-> IF better THEN r.moveList ELSE acc.bestList,
                         moveTree |-> minimaxRecord(acc.moveTree, encodedMove,
                                                   r.moveTree),
                         g |-> g])

\* minimax(side, board, flags, depth), called in the frame-th Python frame.
minimax(s, b, f, depth, frame) ==
    IF frame > RecursionLimit
    THEN Raise("RecursionError", Enter(depth))
    ELSE IF depth = 0
    THEN Return(evaluate(b), <<>>, {}, Enter(depth))
    ELSE
        LET moves == generateMoves(s, b, f)
        IN  IF Len(moves) = 0
            THEN Raise("IndexError", Enter(depth))
            ELSE minimaxLoop(s, b, f, depth, frame, moves, 1,
                    [heuristic |-> IF s = FALSE THEN -Inf ELSE Inf,
                     bestMove |-> moves[1],
                     bestList |-> <<>>,
                     moveTree |-> {},
                     g |-> Enter(depth)])

\* -------------------------------------------------------------- alphabeta

\* The test that makes a move the new best one.
alphabetaImproves(s, moveValue, heuristic) ==
    IF s = FALSE THEN moveValue > heuristic ELSE moveValue < heuristic

\* The bounds after a move: the node's own bound is tightened.
tighten(s, alpha, beta, heuristic) ==
    IF s = FALSE
    THEN [alpha |-> Max2(alpha, heuristic), beta |-> beta]
    ELSE [alpha |-> alpha, beta |-> Min2(beta, heuristic)]

\* An alphabeta that goes on while beta = alpha.
cutoffStrict(alpha, beta) == beta < alpha

\* The test that ends the loop over the moves.
cutoff(alpha, beta) == beta <= alpha

RECURSIVE alphabeta(_, _, _, _, _, _, _)
RECURSIVE alphabetaLoop(_, _, _, _, _, _, _, _)

\* The for loop of alphabeta from its i-th move on; acc holds the locals,
\* alpha and beta among them.
alphabetaLoop(s, b, f, depth, frame, moves, i, acc) ==
    IF i > Len(moves)
    THEN Return(acc.heuristic, <<acc.bestMove>> \o acc.bestList,
                acc.moveTree, acc.g)
    ELSE
        LET move == moves[i]
            encodedMove == encode(move.fro, move.to, move.promote)
            new == makeMove(s, b, move.fro, move.to, f, move.promote)
            r == alphabeta(new.side, new.board, new.flags, depth - 1,
                           acc.alpha, acc.beta, frame + 1)
            g == After(acc.g, r)
        IN  IF r.fault # "none"
            THEN Raise(r.fault, g)
            ELSE
                LET better == alphabetaImproves(s, r.value, acc.heuristic)
                    heuristic == IF better THEN r.value ELSE acc.heuristic
                    bestMove == IF better THEN move ELSE acc.bestMove
                    bestList == IF better THEN r.moveList ELSE acc.bestList
                    moveTree == SetItem(acc.moveTree, encodedMove, r.moveTree)
                    w == tighten(s, acc.alpha, acc.beta, heuristic)
                IN  IF cutoff(w.alpha, w.beta)
                    THEN Return(heuristic, <<bestMove>> \o bestList, moveTree, g)
                    ELSE alphabetaLoop(s, b, f, depth, frame, moves, i + 1,
                            [heuristic |-> heuristic,
                             bestMove |-> bestMove,
                             bestList |-> bestList,
                             moveTree |-> moveTree,
                             alpha |-> w.alpha,
                             beta |-> w.beta,
                             g |-> g])

\* alphabeta(side, board, flags, depth, alpha, beta), called in the frame-th
\* Python frame.
alphabeta(s, b, f, depth, alpha, beta, frame) ==
    LET enter == [Enter(depth) EXCEPT !.windowOk = alpha < beta]
    IN  IF frame > RecursionLimit
        THEN Raise("RecursionError", enter)
        ELSE IF depth = 0
        THEN Return(evaluate(b), <<>>, {}, enter)
        ELSE
            LET moves == generateMoves(s, b, f)
            IN  IF Len(moves) = 0
                THEN Raise("IndexError", enter)
                ELSE alphabetaLoop(s, b, f, depth, frame, moves, 1,
                        [heuristic |-> IF s = FALSE THEN -Inf ELSE Inf,
                         bestMove |-> moves[1],
                         bestList |-> <<>>,
                         moveTree |-> {},
                         alpha |-> alpha,
                         beta |-> beta,
                         g |-> enter])

\* ------------------------------------------------------------- stochastic

RECURSIVE Gcd(_, _)
Gcd(a, b) == IF b = 0 THEN a ELSE Gcd(b, a % b)

Abs(x) == IF x < 0 THEN -x ELSE x

\* A number as the fraction num / den in lowest terms, den > 0.
Frac(n, d) ==
    LET sn == IF d < 0 THEN -n ELSE n
        sd == Abs(d)
        c == Gcd(Abs(sn), sd)
    IN  [num |-> sn \div c, den |-> sd \div c]

\* x > y on fractions.
FracGreater(x, y) == x.num * y.den > y.num * x.den

\* A stochastic that takes the sum of the samples for their average.
averageUndivided(sum, breadth) == Frac(sum, 1)

\* sum / breadth: true division.
average(sum, breadth) == Frac(sum, breadth)

\* The test that makes a move the new best one.
stochasticImproves(s, avg, heuristic) ==
    IF s = FALSE THEN FracGreater(avg, heuristic) ELSE FracGreater(heuristic, avg)

\* The chooser: "first" and "last" pick by the candidate list alone; "cycle"
\* is stateful, picking the last candidate on every call whose number is
\* offset modulo period, and the first otherwise.  k calls were made before.
chooserCall(chooser, moves, k) ==
    CASE chooser.kind = "first" -> moves[1]
      [] chooser.kind = "last" -> moves[Len(moves)]
      [] OTHER -> IF k % chooser.period = chooser.offset
                  THEN moves[Len(moves)]
                  ELSE moves[1]

RECURSIVE stochasticHelper(_, _, _, _, _, _, _)

\* stochasticHelper(side, board, flags, depth, chooser), called in the
\* frame-th Python frame after k calls of the chooser.  It returns (value,
\* moveTree).
stochasticHelper(s, b, f, depth, chooser, k, frame) ==
    LET enter == [Enter(depth) EXCEPT !.chosen = k]
    IN  IF frame > RecursionLimit
        THEN Raise("RecursionError", enter)
        ELSE IF depth = 0
        THEN Return(evaluate(b), <<>>, {}, enter)
        ELSE
            LET moves == generateMoves(s, b, f)
            IN  IF Len(moves) = 0
                THEN Raise("IndexError", enter)
                ELSE
                    LET move == chooserCall(chooser, moves, k)
                        encodedMove == encode(move.fro, move.to, move.promote)
                        new == makeMove(s, b, move.fro, move.to, f, move.promote)
                        r == stochasticHelper(new.side, new.board, new.flags,
                                              depth - 1, chooser, k + 1, frame + 1)
                        g == After(enter, r)
                    IN  IF r.fault # "none"
                        THEN Raise(r.fault, g)
                        ELSE Return(r.value, <<>>,
                                    SetItem({}, encodedMove, r.moveTree), g)

\* What the merge of a sample's tree leaves as the entry of the move.
mergeSample(moveTree, encodedMove, moveTree_d1) ==
    IF HasKey(moveTree, encodedMove)
    THEN SetItem(moveTree, encodedMove,
                 DictUpdate(GetItem(moveTree, encodedMove), moveTree_d1))
    ELSE SetItem(moveTree, encodedMove, moveTree_d1)

RECURSIVE sampleLoop(_, _, _, _, _, _, _, _, _)

\* The loop "for i in range(breadth)" of stochastic for one move, from its
\* i-th pass on (i counts from 0); new is the position after the move.
sampleLoop(new, depth, breadth, chooser, frame, encodedMove, i, sum, acc) ==
    IF i >= breadth
    THEN [fault |-> "none", sum |-> sum, moveTree |-> acc.moveTree, g |-> acc.g]
    ELSE
        LET r == stochasticHelper(new.side, new.board, new.flags, depth - 1,
                                  chooser, acc.g.chosen, frame + 1)
            g == [applied |-> acc.g.applied + r.g.applied,
                  minDepth |-> Min2(acc.g.minDepth, r.g.minDepth),
                  windowOk |-> acc.g.windowOk,
                  chosen |-> r.g.chosen,
                  samples |-> IF r.fault # "none" THEN acc.g.samples
                              ELSE acc.g.samples \cup
                                   {<<encodedMove>> \o q : q \in r.moveTree}
                                   \cup {<<encodedMove>>}]
        IN  IF r.fault # "none"
            THEN [fault |-> r.fault, sum |-> sum, moveTree |-> acc.moveTree,
                  g |-> g]
            ELSE sampleLoop(new, depth, breadth, chooser, frame, encodedMove,
                            i + 1, sum + r.value,
                            [moveTree |-> mergeSample(acc.moveTree, encodedMove,
                                                      r.moveTree),
                             g |-> g])

RECURSIVE stochasticLoop(_, _, _, _, _, _, _, _, _)

\* The loop over the moves of stochastic from its i-th move on.
stochasticLoop(s, b, f, depth, breadth, chooser, moves, i, acc) ==
    IF i > Len(moves)
    THEN Return(acc.heuristic, <<acc.bestMove>>, acc.moveTree, acc.g)
    ELSE
        LET move == moves[i]
            encodedMove == encode(move.fro, move.to, move.promote)
            new == makeMove(s, b, move.fro, move.to, f, move.promote)
            sl == sampleLoop(new, depth, breadth, chooser, 1, encodedMove, 0, 0,
                             [moveTree |-> acc.moveTree,
                              g |-> [acc.g EXCEPT !.applied = @ + 1]])
        IN  IF sl.fault # "none"
            THEN Raise(sl.fault, sl.g)
            ELSE IF breadth = 0
            THEN Raise("ZeroDivisionError", sl.g)
            ELSE
                LET avg == average(sl.sum, breadth)
                    better == stochasticImproves(s, avg, acc.heuristic)
                IN  stochasticLoop(s, b, f, depth, breadth, chooser, moves, i + 1,
                        [heuristic |-> IF better THEN avg ELSE acc.heuristic,
                         bestMove |-> IF better THEN move ELSE acc.bestMove,
                         moveTree |-> sl.moveTree,
                         g |-> sl.g])

\* stochastic(side, board, flags, depth, breadth, chooser).  Its value is a
\* fraction.
stochastic(s, b, f, depth, breadth, chooser) ==
    LET moves == generateMoves(s, b, f)
    IN  IF Len(moves) = 0
        THEN Raise("IndexError", Enter(depth))
        ELSE stochasticLoop(s, b, f, depth, breadth, chooser, moves, 1,
                [heuristic |-> IF s = FALSE THEN Frac(-Inf, 1) ELSE Frac(Inf, 1),
                 bestMove |-> moves[1],
                 moveTree |-> {},
                 g |-> Enter(depth)])

\* ------------------------------------------------------------ the program

\* The games: every board has two legal moves, except at most one board,
\* which has one or none.
MoveCounts ==
    {[b \in Pos |-> 2]} \cup
    {[b \in Pos |-> IF b = d THEN n ELSE 2] : d \in Pos, n \in {0, 1}}

\* Before the call: no call made, nothing returned.
NoCall == [fn |-> "none", depth |-> 0, breadth |-> 0, alpha |-> 0, beta |-> 0,
           chooser |-> <<>>]

NoResult == Raise("none", Enter(0))

\* The inputs of the call: any game of the family, either side to move on
\* board 0.
Init ==
    /\ val \in [Pos -> Values]
    /\ nMoves \in MoveCounts
    /\ side \in BOOLEAN
    /\ board = 0
    /\ flags = 0
    /\ pc = "idle"
    /\ call = NoCall
    /\ result = NoResult

\* The depths of the calls made: those the docstrings allow, and a negative
\* one.
Depths == -1 .. MaxDepth

CallMinimax ==
    /\ pc = "idle"
    /\ \E depth \in Depths :
        /\ call' = [NoCall EXCEPT !.fn = "minimax", !.depth = depth]
        /\ result' = minimax(side, board, flags, depth, 1)
    /\ pc' = "done"
    /\ UNCHANGED <<val, nMoves, side, board, flags>>

\* The bounds a call of alphabeta is made with: the defaults -inf and inf,
\* or any others with alpha < beta.
Bounds == {-Inf, Inf} \cup Values

CallAlphabeta ==
    /\ pc = "idle"
    /\ \E depth \in Depths, alpha \in Bounds, beta \in Bounds :
        /\ alpha < beta
        /\ call' = [NoCall EXCEPT !.fn = "alphabeta", !.depth = depth,
                                  !.alpha = alpha, !.beta = beta]
        /\ result' = alphabeta(side, board, flags, depth, alpha, beta, 1)
    /\ pc' = "done"
    /\ UNCHANGED <<val, nMoves, side, board, flags>>

\* The choosers a call of stochastic is made with.
Choosers ==
    {[kind |-> k, period |-> 1, offset |-> 0] : k \in {"first", "last"}} \cup
    {[kind |-> "cycle", period |-> Period, offset |-> o] : o \in 0 .. (Period - 1)}

\* The breadths of the calls made: positive, zero and negative.
Breadths == -1 .. MaxBreadth

CallStochastic ==
    /\ pc = "idle"
    /\ \E depth \in Depths, breadth \in Breadths, chooser \in Choosers :
        /\ call' = [NoCall EXCEPT !.fn = "stochastic", !.depth = depth,
                                  !.breadth = breadth, !.chooser = chooser]
        /\ result' = stochastic(side, board, flags, depth, breadth, chooser)
    /\ pc' = "done"
    /\ UNCHANGED <<val, nMoves, side, board, flags>>

Next == CallMinimax \/ CallAlphabeta \/ CallStochastic

Spec == Init /\ [][Next]_vars

\* The calls of one function only.
SpecMinimax == Init /\ [][CallMinimax]_vars

SpecAlphabeta == Init /\ [][CallAlphabeta]_vars

SpecStochastic == Init /\ [][CallStochastic]_vars

\* ----------------------------------------------------------------- claims

\* The call of fn has ended.
Done(fn) == pc = "done" /\ call.fn = fn

\* Every board of the game has a legal move.
AlwaysLegalMoves == \A b \in Pos : nMoves[b] >= 1

\* What minimax gives for the inputs of the call made.
MinimaxOfCall == minimax(side, board, flags, call.depth, 1)

\* alphabeta was called with depth >= 0 and the default bounds.
DefaultAlphabeta ==
    Done("alphabeta") /\ call.depth >= 0 /\ call.alpha = -Inf /\ call.beta = Inf

\* C1: alphabeta with the default bounds returns the root value and the
\* moveList that minimax returns on the same side, board, flags and depth.
C1_AlphabetaEqualsMinimax ==
    DefaultAlphabeta =>
        /\ result.fault = MinimaxOfCall.fault
        /\ result.value = MinimaxOfCall.value
        /\ result.moveList = MinimaxOfCall.moveList

\* On the inputs on which minimax returns, alphabeta with the default bounds
\* returns, with the same value and moveList (C1 short of the inputs on
\* which minimax raises).
AlphabetaEqualsMinimaxWhereItReturns ==
    (DefaultAlphabeta /\ MinimaxOfCall.fault = "none") =>
        /\ result.fault = "none"
        /\ result.value = MinimaxOfCall.value
        /\ result.moveList = MinimaxOfCall.moveList

\* The arguments of the call made are those the docstrings allow, with at
\* least one ply to search.
SearchingCall ==
    /\ pc = "done"
    /\ call.depth >= 1
    /\ call.fn = "stochastic" => call.breadth >= 1

\* C2: a call with depth >= 1 raises nothing, and on a board without legal
\* moves it returns (evaluate(board), [], {}).
C2_NoMovesIsLeaf ==
    SearchingCall =>
        /\ result.fault = "none"
        /\ nMoves[board] = 0 =>
            /\ result.value = IF call.fn = "stochastic"
                              THEN Frac(evaluate(board), 1)
                              ELSE evaluate(board)
            /\ result.moveList = <<>>
            /\ result.moveTree = {}

\* C4: every key path a sample of stochastic followed is in the moveTree
\* returned.
C4_SamplesAreMerged ==
    (Done("stochastic") /\ result.fault = "none") =>
        result.g.samples \subseteq result.moveTree

\* C5: the moveTree alphabeta returns with the default bounds is contained
\* in the moveTree minimax returns on the same inputs.
C5_AlphabetaTreeInMinimaxTree ==
    (DefaultAlphabeta /\ result.fault = "none") =>
        /\ MinimaxOfCall.fault = "none"
        /\ result.moveTree \subseteq MinimaxOfCall.moveTree
        /\ Cardinality(result.moveTree) <= Cardinality(MinimaxOfCall.moveTree)

\* On the inputs on which minimax returns, the moveTree of alphabeta is
\* contained in that of minimax (C5 short of the inputs on which minimax
\* raises).
AlphabetaTreeInMinimaxTreeWhereItReturns ==
    (DefaultAlphabeta /\ MinimaxOfCall.fault = "none") =>
        /\ result.fault = "none"
        /\ result.moveTree \subseteq MinimaxOfCall.moveTree

\* The call made has a negative depth, or is stochastic with breadth <= 0.
InvalidCall ==
    /\ pc = "done"
    /\ \/ call.depth < 0
       \/ call.fn = "stochastic" /\ call.breadth <= 0

\* C8: a call with an invalid argument raises the invalid-argument error
\* (ValueError) before any move is applied and any recursive call is made.
C8_InvalidArgumentRejected ==
    InvalidCall =>
        /\ result.fault = "ValueError"
        /\ result.g.applied = 0

\* C9: on a game in which legal moves always exist, a call with depth >= 0
\* (and breadth >= 1) returns, and no invocation it makes gets a negative
\* depth.
C9_DepthNeverNegative ==
    /\ pc = "done"
    /\ call.depth >= 0
    /\ call.fn = "stochastic" => call.breadth >= 1
    /\ AlwaysLegalMoves
    => /\ result.fault = "none"
       /\ result.g.minDepth >= 0

\* The moves of the root call, and the position after its i-th move.
RootMoves == generateMoves(side, board, flags)

AfterRootMove(i) ==
    makeMove(side, board, RootMoves[i].fro, RootMoves[i].to, flags,
             RootMoves[i].promote)

\* What minimax gives for the child the i-th move of the root leads to.
MinimaxOfChild(i) ==
    minimax(AfterRootMove(i).side, AfterRootMove(i).board,
            AfterRootMove(i).flags, call.depth - 1, 2)

\* The greatest (side = FALSE) or least (side = TRUE) member of a set.
Extremum(s, S) ==
    IF s = FALSE
    THEN CHOOSE v \in S : \A w \in S : v >= w
    ELSE CHOOSE v \in S : \A w \in S : v <= w

\* C3: at depth >= 1 with a legal move, minimax returns the maximum (side =
\* FALSE) or the minimum (side = TRUE) of the children's minimax values, and
\* the first move in enumeration order whose child has that value, followed
\* by that child's moveList.
C3_MinimaxPicksFirstExtremum ==
    (Done("minimax") /\ call.depth >= 1 /\ Len(RootMoves) >= 1
        /\ result.fault = "none") =>
        LET n == Len(RootMoves)
            childValue(i) == MinimaxOfChild(i).value
            ext == Extremum(side, {childValue(i) : i \in 1 .. n})
            first == CHOOSE i \in 1 .. n :
                        /\ childValue(i) = ext
                        /\ \A j \in 1 .. (i - 1) : childValue(j) # ext
        IN  /\ \A i \in 1 .. n : MinimaxOfChild(i).fault = "none"
            /\ result.value = ext
            /\ result.moveList =
                   <<RootMoves[first]>> \o MinimaxOfChild(first).moveList

\* C3's case: minimax returned at depth >= 2 from a node whose two children
\* have the same value, and kept the first move.
C3_Witness ==
    /\ Done("minimax") /\ call.depth >= 2 /\ result.fault = "none"
    /\ Len(RootMoves) = 2
    /\ MinimaxOfChild(1).value = MinimaxOfChild(2).value
    /\ result.moveList[1] = RootMoves[1]

\* Legal moves exist at every ply of the d plies from the position.
RECURSIVE MovesAtEveryPly(_, _, _, _)
MovesAtEveryPly(s, b, f, d) ==
    \/ d = 0
    \/ /\ Len(generateMoves(s, b, f)) >= 1
       /\ \A i \in 1 .. Len(generateMoves(s, b, f)) :
            LET move == generateMoves(s, b, f)[i]
                new == makeMove(s, b, move.fro, move.to, f, move.promote)
            IN  MovesAtEveryPly(new.side, new.board, new.flags, d - 1)

\* The key paths of the sequences of 1..d legal moves from the position.
RECURSIVE LegalKeyPaths(_, _, _, _)
LegalKeyPaths(s, b, f, d) ==
    IF d = 0 THEN {}
    ELSE UNION {
        LET move == generateMoves(s, b, f)[i]
            new == makeMove(s, b, move.fro, move.to, f, move.promote)
            key == encode(move.fro, move.to, move.promote)
        IN  {<<key>>} \cup
            {<<key>> \o q :
                q \in LegalKeyPaths(new.side, new.board, new.flags, d - 1)}
        : i \in 1 .. Len(generateMoves(s, b, f))}

\* p is a leaf of the tree: no path of the tree extends it.
IsLeaf(tree, p) ==
    \A q \in tree : ~(Len(q) > Len(p) /\ SubSeq(q, 1, Len(p)) = p)

\* C6: when legal moves exist at every ply up to depth, the moveTree minimax
\* returns has an entry for every legal move at every examined node, and every
\* root-to-leaf path of it has length depth.
C6_MinimaxTreeIsFull ==
    (Done("minimax") /\ call.depth >= 0
        /\ MovesAtEveryPly(side, board, flags, call.depth)) =>
        /\ result.fault = "none"
        /\ result.moveTree = LegalKeyPaths(side, board, flags, call.depth)
        /\ \A p \in result.moveTree :
            IsLeaf(result.moveTree, p) => Len(p) = call.depth

\* C6's case: minimax returned at the largest depth from a node with two
\* moves, the second of which is in the tree without being the best.
C6_Witness ==
    /\ Done("minimax") /\ call.depth = MaxDepth /\ result.fault = "none"
    /\ MovesAtEveryPly(side, board, flags, call.depth)
    /\ Len(RootMoves) = 2
    /\ result.moveList[1] = RootMoves[1]
    /\ HasKey(result.moveTree,
              encode(RootMoves[2].fro, RootMoves[2].to, RootMoves[2].promote))

\* The chooser of the call picks by the candidate list alone.
DeterministicChooser == call.chooser.kind \in {"first", "last"}

\* The board the playout of d plies from board b reaches, the chooser
\* picking the first or the last move at every ply.
RECURSIVE PlayoutLeaf(_, _, _, _, _)
PlayoutLeaf(s, b, f, d, kind) ==
    IF d = 0 \/ Len(generateMoves(s, b, f)) = 0 THEN b
    ELSE
        LET moves == generateMoves(s, b, f)
            move == IF kind = "first" THEN moves[1] ELSE moves[Len(moves)]
            new == makeMove(s, b, move.fro, move.to, f, move.promote)
        IN  PlayoutLeaf(new.side, new.board, new.flags, d - 1, kind)

C10_WindowSound ==
    (Done("alphabeta") /\ call.depth >= 0 /\ call.alpha < call.beta
        /\ AlwaysLegalMoves) =>
        LET v == MinimaxOfCall.value
        IN  /\ result.fault = "none"
            /\ (call.alpha < v /\ v < call.beta) => result.value = v
            /\ v <= call.alpha => result.value <= call.alpha
            /\ v >= call.beta => result.value >= call.beta
            /\ result.g.windowOk

\* C10's case: alphabeta, entered with bounds that exclude the minimax value,
\* cut a loop short and returned a bound that is not the minimax value.
C10_Witness ==
    /\ Done("alphabeta") /\ call.depth >= 2 /\ call.alpha < call.beta
    /\ AlwaysLegalMoves
    /\ result.fault = "none"
    /\ result.value # MinimaxOfCall.value
    /\ result.moveTree # MinimaxOfCall.moveTree

====
